---- MODULE Spec2Model ----
(***************************************************************************)
(* Model of copilot-license-cleanup (src/src/index.ts): one run of the     *)
(* action.  The run walks the configured organizations (seat fetch,        *)
(* classification, removal), then, when deployment is enabled, reads the   *)
(* desired-state csv, fetches the members of the organizations it names,   *)
(* decides every record, and finally writes the outputs.                   *)
(*                                                                         *)
(* Times are milliseconds since the epoch.  A calendar date of the csv is  *)
(* a day number; new Date("YYYY-MM-DD") is midnight UTC of that day.       *)
(***************************************************************************)
EXTENDS Integers, Sequences, FiniteSets, TLC

(* ---------------------------------------------------------------------- *)
(* Program constants                                                       *)
(* ---------------------------------------------------------------------- *)

\* 1000 * 3600 * 24, the divisor of msToDays
MsPerDay == 86400000

(* ---------------------------------------------------------------------- *)
(* Bounds of the model                                                     *)
(* ---------------------------------------------------------------------- *)

\* the run executes on this day (day number since the epoch)
Today == 10
\* largest inactivity threshold / validation window tried, in days
MaxDays == 2
\* longest desired-state csv, in rows
MaxRecords == 2
\* pages after which the answers of a server repeat
MaxPages == 3
\* most items a page carries
MaxPageItems == 2
\* largest total_seats the server reports
MaxTotal == 2
\* most pages the enterprise listing has
MaxListingPages == 2

Orgs == {"a", "b"}
Logins == {"u", "v"}
Groups == {"g1", "g2"}

\* null / undefined of a timestamp field, NaN of a parsed date
Null == -1
\* a csv cell that is the empty string
EmptyCell == -2
\* a csv cell that is no date ("soon"): new Date() gives NaN
BadDate == -3
\* a seat that no team assigned (assigning_team null or absent)
NoTeam == ""
\* a pending_cancellation_date the response does not carry (undefined)
Absent == -4

(* ---------------------------------------------------------------------- *)
(* Sequence helpers (Array.prototype.filter / map / find / concat)         *)
(* ---------------------------------------------------------------------- *)

Range(s) == { s[i] : i \in 1..Len(s) }

\* insertion order of new Set(seq)
RECURSIVE Unique(_)
Unique(s) ==
  IF s = << >> THEN << >>
  ELSE LET h == Head(s)
       IN  << h >> \o Unique(SelectSeq(Tail(s), LAMBDA x : x # h))

RECURSIVE SumSeq(_)
SumSeq(s) == IF s = << >> THEN 0 ELSE Head(s) + SumSeq(Tail(s))

Min(x, y) == IF x <= y THEN x ELSE y

\* the names of the runs explored, in the order of localeCompare and of <
NameOrder == << "", "a", "b", "g1", "g2", "t1", "u", "v" >>
Rank(name) == CHOOSE i \in 1..Len(NameOrder) : NameOrder[i] = name

\* Array.prototype.sort with a comparator that orders by a key, keys[i]
\* being the key of s[i]: the sort is stable, elements with equal keys keep
\* their order
StableSortBy(s, keys) ==
  LET n == Len(s)
      pos(i) == 1 + Cardinality({ j \in 1..n :
                      \/ keys[j] < keys[i]
                      \/ keys[j] = keys[i] /\ j < i })
  IN  [p \in 1..n |-> s[CHOOSE i \in 1..n : pos(i) = p]]

\* lines 288-292 and 469-473: sort((a, b) => loginA.localeCompare(loginB))
LoginKey(x) == Rank(x.login)
SortByLogin(s) == StableSortBy(s, [i \in 1..Len(s) |-> LoginKey(s[i])])

\* lines 558-564: by organization, then by login
OrgLoginKey(x) == Rank(x.organization) * (Len(NameOrder) + 1) + Rank(x.login)
SortByOrgLogin(s) == StableSortBy(s, [i \in 1..Len(s) |-> OrgLoginKey(s[i])])

(* ---------------------------------------------------------------------- *)
(* getInactiveSeats: classification                                        *)
(* ---------------------------------------------------------------------- *)

\* Math.ceil(d / (1000 * 3600 * 24)); \div rounds towards minus infinity
msToDays(d) == -((-d) \div MsPerDay)

\* the time the classification is measured from
ActivityTime(seat) ==
  IF seat.last_activity_at = Null THEN seat.created_at ELSE seat.last_activity_at

\* the predicate of seats.filter(...) in getInactiveSeats
IsInactiveLoose(seat, inactiveDays, nowMs) ==
  msToDays(nowMs - ActivityTime(seat)) >= inactiveDays
IsInactive(seat, inactiveDays, nowMs) ==
  msToDays(nowMs - ActivityTime(seat)) > inactiveDays

(* ---------------------------------------------------------------------- *)
(* getInactiveSeats: Array.prototype.sort with the comparator of line 105  *)
(* (V8: one run is counted and made ascending, the rest is inserted by     *)
(* binary insertion; arrays here are far shorter than a TimSort min run)   *)
(* ---------------------------------------------------------------------- *)

Compare(a, b) ==
  IF a.last_activity_at = Null \/ b.last_activity_at = Null
  THEN -1
  ELSE a.last_activity_at - b.last_activity_at

Reverse(s) == [i \in 1..Len(s) |-> s[Len(s) + 1 - i]]

RECURSIVE RunFrom(_, _, _)
RunFrom(s, idx, desc) ==
  IF idx > Len(s) THEN idx - 1
  ELSE LET order == Compare(s[idx], s[idx - 1])
       IN  IF (desc /\ order >= 0) \/ (~desc /\ order < 0)
           THEN idx - 1
           ELSE RunFrom(s, idx + 1, desc)

IsDescending(s) == Len(s) >= 2 /\ Compare(s[2], s[1]) < 0

CountRun(s) == IF Len(s) = 1 THEN 1 ELSE RunFrom(s, 3, IsDescending(s))

MakeRun(s) ==
  LET n == CountRun(s)
  IN  IF IsDescending(s)
      THEN Reverse(SubSeq(s, 1, n)) \o SubSeq(s, n + 1, Len(s))
      ELSE s

RECURSIVE BinSearch(_, _, _, _)
BinSearch(s, pivot, left, right) ==
  IF left >= right THEN left
  ELSE LET mid == left + ((right - left) \div 2)
       IN  IF Compare(pivot, s[mid]) < 0
           THEN BinSearch(s, pivot, left, mid)
           ELSE BinSearch(s, pivot, mid + 1, right)

RECURSIVE InsertFrom(_, _)
InsertFrom(s, start) ==
  IF start > Len(s) THEN s
  ELSE LET pivot == s[start]
           pos == BinSearch(s, pivot, 1, start)
           moved == SubSeq(s, 1, pos - 1) \o << pivot >> \o SubSeq(s, pos, start - 1)
                      \o SubSeq(s, start + 1, Len(s))
       IN  InsertFrom(moved, start + 1)

SortSeats(s) == IF Len(s) < 2 THEN s ELSE InsertFrom(MakeRun(s), CountRun(s) + 1)

WithOrg(seat, org) ==
  [login |-> seat.login, created_at |-> seat.created_at,
   last_activity_at |-> seat.last_activity_at,
   pending_cancellation_date |-> seat.pending_cancellation_date,
   assigning_team |-> seat.assigning_team, organization |-> org]

\* the value getInactiveSeats returns and caches: filter, sort, annotate
GetInactiveSeats(org, seats, inactiveDays, nowMs) ==
  LET inactive == SelectSeq(seats, LAMBDA seat : IsInactive(seat, inactiveDays, nowMs))
      sorted == SortSeats(inactive)
  IN  [i \in 1..Len(sorted) |-> WithOrg(sorted[i], org)]

(* ---------------------------------------------------------------------- *)
(* State                                                                   *)
(* ---------------------------------------------------------------------- *)

VARIABLES
  input,                 \* getInputs(): the toggles, the organization list, the day counts
  remote,                \* the remote service: seats and members of every organization
  csvFile,               \* the desired-state file: whether it exists, and its rows
  now,                   \* new Date().getTime() of this run
  pc,                    \* where run() stands
  orgIdx,                \* index of the organization the loop of line 239 is at
  orgData,               \* the Map of line 47
  allInactiveSeats, allSeatsCount, allRemovedSeatsCount,
  tasks,                 \* core.group callbacks that were started and not awaited
  calls,                 \* every mutating request issued so far, in order
  records, usersToDeploy,
  memberOrgs,            \* organizations whose members are still to be fetched
  userIdx,               \* index of the record the loop of line 375 is at
  decisions,             \* what the loop did with each record of usersToDeploy
  deployedSeats, deployedSeatsCount,
  createdLog,            \* the seats_created of every assignment answered so far
  dryTwin,               \* deployed list and count of the same run with dry-run on
  outputs,               \* what core.setOutput was given (lines 582-587)
  groupCounts,           \* groupCountsArray of line 513, once it was computed
  fetch,                 \* one paginated fetch followed page by page
  organizations,         \* the organizations to process (line 179)
  afterCursor,           \* the cursor of the enterprise listing (line 181)
  fetches                \* every seat and member fetch started so far, in order

vars == << input, remote, csvFile, now, pc, orgIdx, orgData, allInactiveSeats,
           allSeatsCount, allRemovedSeatsCount, tasks, calls, records, usersToDeploy,
           memberOrgs, userIdx, decisions, deployedSeats, deployedSeatsCount,
           createdLog, dryTwin, outputs, groupCounts, fetch, organizations,
           afterCursor, fetches >>

\* an organization the Map has no entry for
NoEntry == [fields |-> {}, seats |-> << >>, inactiveSeats |-> << >>, members |-> {}]

\* orgData.get(org) is truthy
HasEntry(org) == orgData[org].fields # {}

\* orgData.set(org, { seats: seats }) of getOrgData: the entry is replaced
SetSeats(entry, seats) ==
  [NoEntry EXCEPT !.fields = {"seats"}, !.seats = seats]

\* orgData.set(org, { ...orgDataEntry, inactiveSeats }) of getInactiveSeats
SetInactive(entry, inactive) ==
  [entry EXCEPT !.fields = @ \cup {"inactiveSeats"}, !.inactiveSeats = inactive]

\* orgData.set(org, { ...orgDataEntry, members }) of getOrgMembers
SetMembers(entry, members) ==
  [entry EXCEPT !.fields = @ \cup {"members"}, !.members = members]

(* ---------------------------------------------------------------------- *)
(* getOrgData: the seat fetch                                              *)
(* ---------------------------------------------------------------------- *)

\* how the seat requests of an organization end (remote.seatsStatus): every
\* page is answered; a page is answered "Copilot Business is not enabled" or
\* 404 (the loop breaks and keeps what it has); a page fails otherwise (the
\* error is thrown).  remote.seatsGot is the number of seats the pages
\* before the failing one carried.
SeatsStatuses == {"ok", "not_enabled", "not_found", "error"}
MembersStatuses == {"ok", "not_found", "error"}
AssignStatuses == {"ok", "not_enabled", "error"}

\* the seats getOrgData returns when it does not throw
FetchedSeatsAll(org) == remote.seats[org]
FetchedSeats(org) ==
  IF remote.seatsStatus[org] = "ok"
  THEN remote.seats[org]
  ELSE SubSeq(remote.seats[org], 1, remote.seatsGot[org])

(* ---------------------------------------------------------------------- *)
(* run: the organizations to process (lines 190-236)                       *)
(* ---------------------------------------------------------------------- *)

\* input.org is the organization input, one character per element

\* String.prototype.split(','): the segments between the commas
RECURSIVE SplitFrom(_, _)
SplitFrom(s, segment) ==
  IF s = << >> THEN << segment >>
  ELSE IF Head(s) = ","
       THEN << segment >> \o SplitFrom(Tail(s), << >>)
       ELSE SplitFrom(Tail(s), Append(segment, Head(s)))

\* String.prototype.trim(): the whitespace of both ends is dropped
RECURSIVE TrimStart(_)
TrimStart(s) == IF s # << >> /\ Head(s) = " " THEN TrimStart(Tail(s)) ELSE s
Trim(s) == Reverse(TrimStart(Reverse(TrimStart(s))))

\* the string the characters spell
RECURSIVE Spell(_)
Spell(s) == IF s = << >> THEN "" ELSE Head(s) \o Spell(Tail(s))

\* line 190: input.enterprise && input.enterprise !== null
UseEnterpriseUnlessOrg == input.enterprise # "" /\ input.org = << >>
UseEnterprise == input.enterprise # ""

\* line 235: input.org.split(',').map(org => org.trim())
SplitOrganizations ==
  LET segments == SplitFrom(input.org, << >>)
  IN  [i \in 1..Len(segments) |-> Spell(Trim(segments[i]))]

\* lines 204-228: a page of the enterprise listing is answered; remote.enterprise
\* holds the logins of every page, afterCursor counts the pages received
EnterprisePageAnswered ==
  /\ pc = "enterprise"
  /\ LET nodes == remote.enterprise[afterCursor + 1]
         hasNextPage == afterCursor + 1 < Len(remote.enterprise)
         listed == organizations \o nodes
     IN  /\ organizations' = listed
         /\ afterCursor' = afterCursor + 1
         /\ pc' = IF hasNextPage THEN "enterprise"
                  ELSE IF listed = << >> THEN "afterOrgs" ELSE "orgs"
  /\ UNCHANGED << fetch, groupCounts, fetches, input, remote, csvFile, now, orgIdx, orgData,
                  allInactiveSeats, allSeatsCount, allRemovedSeatsCount, tasks, calls,
                  records, usersToDeploy, memberOrgs, userIdx, decisions, deployedSeats,
                  deployedSeatsCount, createdLog, dryTwin, outputs >>

(* ---------------------------------------------------------------------- *)
(* run: the organization loop (lines 239-303)                              *)
(* ---------------------------------------------------------------------- *)

FirstLogin_(seats) == << seats[1].login >>
Logins_(seats) == [i \in 1..Len(seats) |-> seats[i].login]

Call(kind, org, team, logins) ==
  [kind |-> kind, org |-> org, team |-> team, logins |-> logins]

\* line 249 / line 264: the two halves of the inactive seats
AssignedIndividuallyAll(inactiveSeats) == inactiveSeats
AssignedIndividually(inactiveSeats) ==
  SelectSeq(inactiveSeats, LAMBDA seat : seat.assigning_team = NoTeam)
AssignedByTeam(inactiveSeats) ==
  SelectSeq(inactiveSeats, LAMBDA seat : seat.assigning_team # NoTeam)

\* lines 248-261: the request the un-awaited group issues as it starts
IndividualCallsAlways(org, inactiveSeats) ==
  LET individually == AssignedIndividually(inactiveSeats)
  IN  IF Len(individually) > 0
      THEN << Call("remove", org, NoTeam, Logins_(individually)) >>
      ELSE << >>
IndividualCalls(org, inactiveSeats) ==
  IF input.removeInactive THEN IndividualCallsAlways(org, inactiveSeats) ELSE << >>

TeamCall(org, seat) == Call("removeTeam", org, seat.assigning_team, << seat.login >>)

\* lines 263-275: the first request of the un-awaited loop over the team seats
TeamCallsAlways(org, inactiveSeats) ==
  LET byTeam == AssignedByTeam(inactiveSeats)
  IN  IF Len(byTeam) > 0 THEN << TeamCall(org, byTeam[1]) >> ELSE << >>
TeamCalls(org, inactiveSeats) ==
  IF input.removefromTeam THEN TeamCallsAlways(org, inactiveSeats) ELSE << >>

\* iteration tells the callbacks of two iterations over one organization apart
Task(kind, org, rest) ==
  [kind |-> kind, org |-> org, rest |-> rest, iteration |-> orgIdx]

\* the callbacks left in flight by one iteration of the loop
NewTasks(org, inactiveSeats) ==
  (IF IndividualCalls(org, inactiveSeats) # << >>
   THEN { Task("individual", org, AssignedIndividually(inactiveSeats)) } ELSE {})
  \cup
  (IF TeamCalls(org, inactiveSeats) # << >>
   THEN { Task("team", org, Tail(AssignedByTeam(inactiveSeats))) } ELSE {})

CurrentOrg == organizations[orgIdx]

\* a request for the seats (getOrgData) or the members (getOrgMembers) of an
\* organization
Fetch(kind, org) == [kind |-> kind, org |-> org]

\* lines 277-302: the job summary sorts inactiveSeats, the array the Map
\* holds, in place by login; allInactiveSeats was copied from it before
SummarySorted(seats, inactiveSeats) ==
  IF input.jobSummary /\ Len(seats) > 0 THEN SortByLogin(inactiveSeats) ELSE inactiveSeats

\* the seat fetch of the current organization threw: run() rejects
OrgFetchFailed ==
  /\ pc = "orgs"
  /\ remote.seatsStatus[CurrentOrg] = "error"
  /\ pc' = "crashed"
  /\ fetches' = Append(fetches, Fetch("seats", CurrentOrg))
  /\ UNCHANGED << fetch, groupCounts, organizations, afterCursor, input, remote, csvFile, now, orgIdx, orgData, allInactiveSeats,
                  allSeatsCount, allRemovedSeatsCount, tasks, calls, records,
                  usersToDeploy, memberOrgs, userIdx, decisions, deployedSeats,
                  deployedSeatsCount, createdLog, dryTwin, outputs >>

\* the seat fetch of the current organization returned: the rest of the iteration
OrgFetched ==
  /\ pc = "orgs"
  /\ remote.seatsStatus[CurrentOrg] # "error"
  /\ LET org == CurrentOrg
         seats == FetchedSeats(org)
         inactiveSeats == GetInactiveSeats(org, seats, input.inactiveDays, now)
     IN  /\ orgData' = [orgData EXCEPT
                          ![org] = SetInactive(SetSeats(orgData[org], seats),
                                               SummarySorted(seats, inactiveSeats))]
         /\ allInactiveSeats' = allInactiveSeats \o inactiveSeats
         /\ allSeatsCount' = allSeatsCount + Len(seats)
         /\ calls' = calls \o IndividualCalls(org, inactiveSeats)
                           \o TeamCalls(org, inactiveSeats)
         /\ tasks' = tasks \cup NewTasks(org, inactiveSeats)
  /\ orgIdx' = orgIdx + 1
  /\ pc' = IF orgIdx = Len(organizations) THEN "afterOrgs" ELSE "orgs"
  /\ fetches' = Append(fetches, Fetch("seats", CurrentOrg))
  /\ UNCHANGED << fetch, groupCounts, organizations, afterCursor, input, remote, csvFile, now, allRemovedSeatsCount, records,
                  usersToDeploy, memberOrgs, userIdx, decisions, deployedSeats,
                  deployedSeatsCount, createdLog, dryTwin, outputs >>

(* ---------------------------------------------------------------------- *)
(* The un-awaited callbacks: a response arrives while run() waits          *)
(* ---------------------------------------------------------------------- *)

\* run() is suspended on a request, or has returned: the event loop can
\* deliver the response of another request
AwaitingIO == pc \in {"enterprise", "orgs", "members", "assign", "lazyFetch", "done", "failed"}

\* lines 256-258: the removal-by-list request answered
IndividualRemoved(t, cancelled) ==
  /\ AwaitingIO
  /\ t \in tasks /\ t.kind = "individual"
  /\ allRemovedSeatsCount' = allRemovedSeatsCount + cancelled
  /\ tasks' = tasks \ {t}
  /\ UNCHANGED << fetch, groupCounts, organizations, afterCursor, fetches, input, remote, csvFile, now, pc, orgIdx, orgData, allInactiveSeats,
                  allSeatsCount, calls, records, usersToDeploy, memberOrgs, userIdx,
                  decisions, deployedSeats, deployedSeatsCount, createdLog, dryTwin, outputs >>

\* lines 266-273: a team-membership removal answered, the loop goes on
TeamRemoved(t) ==
  /\ AwaitingIO
  /\ t \in tasks /\ t.kind = "team"
  /\ IF t.rest = << >>
     THEN /\ tasks' = tasks \ {t}
          /\ calls' = calls
     ELSE /\ tasks' = (tasks \ {t}) \cup { [t EXCEPT !.rest = Tail(t.rest)] }
          /\ calls' = Append(calls, TeamCall(t.org, Head(t.rest)))
  /\ UNCHANGED << fetch, groupCounts, organizations, afterCursor, fetches, input, remote, csvFile, now, pc, orgIdx, orgData, allInactiveSeats,
                  allSeatsCount, allRemovedSeatsCount, records, usersToDeploy,
                  memberOrgs, userIdx, decisions, deployedSeats, deployedSeatsCount,
                  createdLog, dryTwin, outputs >>

(* ---------------------------------------------------------------------- *)
(* run: the desired-state file (lines 305-372)                             *)
(* ---------------------------------------------------------------------- *)

\* Object.values(record).some(value => value === '')
HasEmptyValues(record) ==
  \/ record.organization = ""
  \/ record.deployment_group = ""
  \/ record.login = ""
  \/ record.activation_date = EmptyCell

\* new Date(record.activation_date).getTime(); Null stands for NaN
ParseDate(cell) == IF cell < 0 THEN Null ELSE cell * MsPerDay

\* today.setDate(today.getDate() - deployValidationTime): the same time of
\* day, that many calendar days earlier
ValidationTime(nowMs, days) == nowMs - days * MsPerDay

\* lines 343-347
IsDateWithinWindow(cell, nowMs, days) ==
  /\ ValidationTime(nowMs, days) <= ParseDate(cell)
  /\ ParseDate(cell) <= nowMs

IsUserToDeployNoWindow(record, nowMs, days) ==
  /\ ~HasEmptyValues(record)
  /\ ParseDate(record.activation_date) # Null

\* the predicate of records.filter(...) of line 327
IsUserToDeploy(record, nowMs, days) ==
  /\ ~HasEmptyValues(record)
  /\ ParseDate(record.activation_date) # Null
  /\ IsDateWithinWindow(record.activation_date, nowMs, days)

Outputs ==
  [inactiveSeats |-> allInactiveSeats,
   inactiveSeatCount |-> Len(allInactiveSeats),
   seatCount |-> allSeatsCount,
   removedSeats |-> allRemovedSeatsCount,
   deployedSeats |-> deployedSeats,
   deployedSeatCount |-> deployedSeatsCount]

NoOutputs == << >>

\* lines 305-316 with the file missing: core.setFailed and return
CsvMissing ==
  /\ pc = "afterOrgs"
  /\ input.deployUsers /\ ~csvFile.exists
  /\ pc' = "failed"
  /\ UNCHANGED << fetch, groupCounts, organizations, afterCursor, fetches, input, remote, csvFile, now, orgIdx, orgData, allInactiveSeats,
                  allSeatsCount, allRemovedSeatsCount, tasks, calls, records,
                  usersToDeploy, memberOrgs, userIdx, decisions, deployedSeats,
                  deployedSeatsCount, createdLog, dryTwin, outputs >>

\* lines 318-364: the file is parsed and filtered, the organizations it names
\* are collected
CsvRead ==
  /\ pc = "afterOrgs"
  /\ input.deployUsers /\ csvFile.exists
  /\ LET users == SelectSeq(csvFile.rows,
                    LAMBDA r : IsUserToDeploy(r, now, input.deployValidationTime))
         uniqueOrganizations ==
           Unique([i \in 1..Len(users) |-> users[i].organization])
     IN  /\ records' = csvFile.rows
         /\ usersToDeploy' = users
         /\ decisions' = [i \in 1..Len(users) |-> "none"]
         /\ memberOrgs' = uniqueOrganizations
         /\ pc' = IF uniqueOrganizations = << >> THEN "users" ELSE "members"
  /\ UNCHANGED << fetch, groupCounts, organizations, afterCursor, fetches, input, remote, csvFile, now, orgIdx, orgData, allInactiveSeats,
                  allSeatsCount, allRemovedSeatsCount, tasks, calls, userIdx,
                  deployedSeats, deployedSeatsCount, createdLog, dryTwin, outputs >>

\* the members getOrgMembers returns when it does not throw: "Not Found"
\* answers the first page, the loop breaks with nothing accumulated
FetchedMembers(org) ==
  IF remote.membersStatus[org] = "ok" THEN remote.members[org] ELSE {}

\* getOrgMembers of the next organization returned (lines 125-158, 367)
MembersFetched ==
  /\ pc = "members"
  /\ remote.membersStatus[Head(memberOrgs)] # "error"
  /\ LET org == Head(memberOrgs)
     IN  orgData' = [orgData EXCEPT ![org] = SetMembers(orgData[org], FetchedMembers(org))]
  /\ memberOrgs' = Tail(memberOrgs)
  /\ pc' = IF Tail(memberOrgs) = << >> THEN "users" ELSE "members"
  /\ fetches' = Append(fetches, Fetch("members", Head(memberOrgs)))
  /\ UNCHANGED << fetch, groupCounts, organizations, afterCursor, input, remote, csvFile, now, orgIdx, allInactiveSeats,
                  allSeatsCount, allRemovedSeatsCount, tasks, calls, records,
                  usersToDeploy, userIdx, decisions, deployedSeats,
                  deployedSeatsCount, createdLog, dryTwin, outputs >>

\* getOrgMembers threw: the catch of line 369 logs it, the Map is untouched
MembersFetchFailed ==
  /\ pc = "members"
  /\ remote.membersStatus[Head(memberOrgs)] = "error"
  /\ memberOrgs' = Tail(memberOrgs)
  /\ pc' = IF Tail(memberOrgs) = << >> THEN "users" ELSE "members"
  /\ fetches' = Append(fetches, Fetch("members", Head(memberOrgs)))
  /\ UNCHANGED << fetch, groupCounts, organizations, afterCursor, input, remote, csvFile, now, orgIdx, orgData, allInactiveSeats,
                  allSeatsCount, allRemovedSeatsCount, tasks, calls, records,
                  usersToDeploy, userIdx, decisions, deployedSeats,
                  deployedSeatsCount, createdLog, dryTwin, outputs >>

(* ---------------------------------------------------------------------- *)
(* run: the loop over the records to deploy (lines 375-451)                *)
(* ---------------------------------------------------------------------- *)

CurrentUser == usersToDeploy[userIdx]

\* orgData.get(org)?.members.find(member => member.login === user.login)
IsMember(entry, user) == user.login \in entry.members

\* (orgData.get(org)?.seats ?? []).find(seat => seat.assignee.login ===
\* user.login && seat.pending_cancellation_date === null)
HasSeat(entry, user) ==
  \E i \in 1..Len(entry.seats) :
    /\ entry.seats[i].login = user.login
    /\ entry.seats[i].pending_cancellation_date = Null

\* the branch of the loop body a record takes, from what the Map holds
BranchSeatFirst(entry, user) ==
  IF entry.fields = {} THEN "lazyFetch"
  ELSE IF "members" \notin entry.fields THEN "throws"
  ELSE IF HasSeat(entry, user) THEN "skipped-already-seated"
  ELSE IF ~IsMember(entry, user) THEN "skipped-not-member"
  ELSE "assign"
Branch(entry, user) ==
  IF entry.fields = {} THEN "lazyFetch"
  ELSE IF "members" \notin entry.fields THEN "throws"
  ELSE IF ~IsMember(entry, user) THEN "skipped-not-member"
  ELSE IF HasSeat(entry, user) THEN "skipped-already-seated"
  ELSE "assign"

Decide(i, what) == [decisions EXCEPT ![i] = what]

\* line 425: !input.deployUsersDryRun
IsDryRunIgnored == FALSE
IsDryRun == input.deployUsersDryRun

\* lines 445-446: the dry run counts one seat and lists the record
DryRunUserNoPush(deployed, user) ==
  [deployedSeats |-> deployed.deployedSeats,
   deployedSeatsCount |-> deployed.deployedSeatsCount + 1]
DryRunUser(deployed, user) ==
  [deployedSeats |-> Append(deployed.deployedSeats, user),
   deployedSeatsCount |-> deployed.deployedSeatsCount + 1]

\* lines 433-434: the answered request adds seats_created and lists the record
AssignedUser(deployed, user, created) ==
  [deployedSeats |-> Append(deployed.deployedSeats, user),
   deployedSeatsCount |-> deployed.deployedSeatsCount + created]

Deployed == [deployedSeats |-> deployedSeats, deployedSeatsCount |-> deployedSeatsCount]

\* lines 398-402 and 419-421: the record is skipped, the loop continues
SkipUser ==
  /\ pc = "users" /\ userIdx <= Len(usersToDeploy)
  /\ LET branch == Branch(orgData[CurrentUser.organization], CurrentUser)
     IN  /\ branch \in {"skipped-not-member", "skipped-already-seated"}
         /\ decisions' = Decide(userIdx, branch)
  /\ userIdx' = userIdx + 1
  /\ UNCHANGED << fetch, groupCounts, organizations, afterCursor, fetches, input, remote, csvFile, now, pc, orgIdx, orgData, allInactiveSeats,
                  allSeatsCount, allRemovedSeatsCount, tasks, calls, records,
                  usersToDeploy, memberOrgs, deployedSeats, deployedSeatsCount,
                  createdLog, dryTwin, outputs >>

\* line 399 with an entry that holds no members: undefined.find throws, the
\* catch of line 548 ends the deployment
MembersUndefined ==
  /\ pc = "users" /\ userIdx <= Len(usersToDeploy)
  /\ Branch(orgData[CurrentUser.organization], CurrentUser) = "throws"
  /\ decisions' = Decide(userIdx, "threw")
  /\ pc' = "finish"
  /\ UNCHANGED << fetch, groupCounts, organizations, afterCursor, fetches, input, remote, csvFile, now, orgIdx, orgData, allInactiveSeats,
                  allSeatsCount, allRemovedSeatsCount, tasks, calls, records,
                  usersToDeploy, memberOrgs, userIdx, deployedSeats,
                  deployedSeatsCount, createdLog, dryTwin, outputs >>

\* lines 422-447: the record is to be assigned a seat; in a dry run it is
\* counted and listed, otherwise the request is issued and awaited
AssignOrDryRun ==
  /\ pc = "users" /\ userIdx <= Len(usersToDeploy)
  /\ Branch(orgData[CurrentUser.organization], CurrentUser) = "assign"
  /\ dryTwin' = DryRunUser(dryTwin, CurrentUser)
  /\ IF IsDryRun
     THEN /\ deployedSeats' = DryRunUser(Deployed, CurrentUser).deployedSeats
          /\ deployedSeatsCount' = DryRunUser(Deployed, CurrentUser).deployedSeatsCount
          /\ decisions' = Decide(userIdx, "assigned-dry-run")
          /\ userIdx' = userIdx + 1
          /\ UNCHANGED << pc, calls >>
     ELSE \* line 428: the request is issued and awaited
          /\ calls' = Append(calls, Call("assign", CurrentUser.organization, NoTeam,
                                         << CurrentUser.login >>))
          /\ pc' = "assign"
          /\ UNCHANGED << userIdx, decisions, deployedSeats, deployedSeatsCount >>
  /\ UNCHANGED << fetch, groupCounts, organizations, afterCursor, fetches, input, remote, csvFile, now, orgIdx, orgData, allInactiveSeats,
                  allSeatsCount, allRemovedSeatsCount, tasks, records,
                  usersToDeploy, memberOrgs, createdLog, outputs >>

\* lines 432-434: the assignment answered with seats_created
Assigned(created) ==
  /\ pc = "assign"
  /\ remote.assignStatus[CurrentUser.organization] = "ok"
  /\ deployedSeats' = AssignedUser(Deployed, CurrentUser, created).deployedSeats
  /\ deployedSeatsCount' = AssignedUser(Deployed, CurrentUser, created).deployedSeatsCount
  /\ createdLog' = Append(createdLog, created)
  /\ decisions' = Decide(userIdx, "assigned")
  /\ userIdx' = userIdx + 1
  /\ pc' = "users"
  /\ UNCHANGED << fetch, groupCounts, organizations, afterCursor, fetches, input, remote, csvFile, now, orgIdx, orgData, allInactiveSeats,
                  allSeatsCount, allRemovedSeatsCount, tasks, calls, records,
                  usersToDeploy, memberOrgs, dryTwin, outputs >>

\* lines 436-438: "Copilot Business is not enabled": logged, the loop continues
AssignNotEnabled ==
  /\ pc = "assign"
  /\ remote.assignStatus[CurrentUser.organization] = "not_enabled"
  /\ decisions' = Decide(userIdx, "not-enabled")
  /\ userIdx' = userIdx + 1
  /\ pc' = "users"
  /\ UNCHANGED << fetch, groupCounts, organizations, afterCursor, fetches, input, remote, csvFile, now, orgIdx, orgData, allInactiveSeats,
                  allSeatsCount, allRemovedSeatsCount, tasks, calls, records,
                  usersToDeploy, memberOrgs, deployedSeats, deployedSeatsCount,
                  createdLog, dryTwin, outputs >>

\* lines 439-441: any other error is thrown to the catch of line 548
AssignFailed ==
  /\ pc = "assign"
  /\ remote.assignStatus[CurrentUser.organization] = "error"
  /\ decisions' = Decide(userIdx, "assign-failed")
  /\ pc' = "finish"
  /\ UNCHANGED << fetch, groupCounts, organizations, afterCursor, fetches, input, remote, csvFile, now, orgIdx, orgData, allInactiveSeats,
                  allSeatsCount, allRemovedSeatsCount, tasks, calls, records,
                  usersToDeploy, memberOrgs, userIdx, deployedSeats,
                  deployedSeatsCount, createdLog, dryTwin, outputs >>

\* lines 379-383: the Map has no entry, the seats are fetched
LazyFetchStart ==
  /\ pc = "users" /\ userIdx <= Len(usersToDeploy)
  /\ Branch(orgData[CurrentUser.organization], CurrentUser) = "lazyFetch"
  /\ pc' = "lazyFetch"
  /\ fetches' = Append(fetches, Fetch("seats", CurrentUser.organization))
  /\ UNCHANGED << fetch, groupCounts, organizations, afterCursor, input, remote, csvFile, now, orgIdx, orgData, allInactiveSeats,
                  allSeatsCount, allRemovedSeatsCount, tasks, calls, records,
                  usersToDeploy, memberOrgs, userIdx, decisions, deployedSeats,
                  deployedSeatsCount, createdLog, dryTwin, outputs >>

\* lines 383-394: the seats arrived and are classified; the if of line 379
\* has no more statements, the loop goes to the next record
LazyFetched ==
  /\ pc = "lazyFetch"
  /\ remote.seatsStatus[CurrentUser.organization] # "error"
  /\ LET org == CurrentUser.organization
         seats == FetchedSeats(org)
         inactiveSeats == GetInactiveSeats(org, seats, input.inactiveDays, now)
     IN  orgData' = [orgData EXCEPT
                       ![org] = SetInactive(SetSeats(orgData[org], seats), inactiveSeats)]
  /\ decisions' = Decide(userIdx, "fetched")
  /\ userIdx' = userIdx + 1
  /\ pc' = "users"
  /\ UNCHANGED << fetch, groupCounts, organizations, afterCursor, fetches, input, remote, csvFile, now, orgIdx, allInactiveSeats,
                  allSeatsCount, allRemovedSeatsCount, tasks, calls, records,
                  usersToDeploy, memberOrgs, deployedSeats, deployedSeatsCount,
                  createdLog, dryTwin, outputs >>

\* lines 385-387: the fetch threw, the record is skipped
LazyFetchFailed ==
  /\ pc = "lazyFetch"
  /\ remote.seatsStatus[CurrentUser.organization] = "error"
  /\ decisions' = Decide(userIdx, "fetch-failed")
  /\ userIdx' = userIdx + 1
  /\ pc' = "users"
  /\ UNCHANGED << fetch, groupCounts, organizations, afterCursor, fetches, input, remote, csvFile, now, orgIdx, orgData, allInactiveSeats,
                  allSeatsCount, allRemovedSeatsCount, tasks, calls, records,
                  usersToDeploy, memberOrgs, deployedSeats, deployedSeatsCount,
                  createdLog, dryTwin, outputs >>

(* ---------------------------------------------------------------------- *)
(* run: the outputs (lines 581-587)                                        *)
(* ---------------------------------------------------------------------- *)

\* the contribution of one record to its group (lines 497-509)
PreviouslySeated(record, data) == HasSeat(data[record.organization], record)
NewlyDeployed(record, deployed) ==
  \E k \in 1..Len(deployed) : deployed[k].login = record.login
IsInactiveUser(record, inactive) ==
  \E k \in 1..Len(inactive) :
    inactive[k].login = record.login /\ inactive[k].organization = record.organization

NoCounts == [total |-> 0, deployed |-> 0, inactive |-> 0]

DeployedIncrementOnce(record, data, deployed) ==
  IF PreviouslySeated(record, data) \/ NewlyDeployed(record, deployed) THEN 1 ELSE 0
DeployedIncrement(record, data, deployed) ==
  (IF PreviouslySeated(record, data) THEN 1 ELSE 0)
    + (IF NewlyDeployed(record, deployed) THEN 1 ELSE 0)

Counted(counts, record, data, deployed, inactive) ==
  [total |-> counts.total + 1,
   deployed |-> counts.deployed + DeployedIncrement(record, data, deployed),
   inactive |-> counts.inactive + (IF IsInactiveUser(record, inactive) THEN 1 ELSE 0)]

\* records.reduce(...) of line 493: counts maps a group to its Counts
RECURSIVE GroupCountsOf(_, _, _, _, _)
GroupCountsOf(recs, counts, data, deployed, inactive) ==
  IF recs = << >> THEN counts
  ELSE LET record == Head(recs)
           group == record.deployment_group
           before == IF group \in DOMAIN counts THEN counts[group] ELSE NoCounts
           after == Counted(before, record, data, deployed, inactive)
       IN  GroupCountsOf(Tail(recs),
                         [g \in DOMAIN counts \cup {group} |->
                            IF g = group THEN after ELSE counts[g]],
                         data, deployed, inactive)

\* Object.entries(groupCounts).sort(by group name).map(...) of lines 513-520
GroupKey(x) == Rank(x.group)
GroupCountsArray(counts) ==
  LET keys == DOMAIN counts
      entry(g) == [group |-> g, total |-> counts[g].total,
                   deployed |-> counts[g].deployed, inactive |-> counts[g].inactive]
      some == CHOOSE q \in [1..Cardinality(keys) -> keys] :
                \A g \in keys : \E i \in DOMAIN q : q[i] = g
      entries == [i \in DOMAIN some |-> entry(some[i])]
  IN  StableSortBy(entries, [i \in DOMAIN entries |-> GroupKey(entries[i])])

\* the tally was not computed
NoTally == [computed |-> FALSE, array |-> << >>]

\* the loop over the records ended without an exception: lines 453-546 run
LoopCompleted == pc = "users" /\ userIdx > Len(usersToDeploy)

\* line 469: the summary table sorts deployedSeats in place
SummarySortedDeployed(deployed) ==
  IF LoopCompleted /\ input.jobSummary /\ Len(deployed) > 0
  THEN SortByLogin(deployed) ELSE deployed

\* what is left of run() once its last awaited request was answered: the
\* deployment summary with the group tally (453-546), the csv of the
\* inactive seats, sorted in place (555-579), the outputs (582-587)
SetOutputs ==
  /\ \/ pc = "afterOrgs" /\ ~input.deployUsers
     \/ LoopCompleted
     \/ pc = "finish"
  /\ deployedSeats' = SummarySortedDeployed(deployedSeats)
  /\ dryTwin' = [dryTwin EXCEPT !.deployedSeats = SummarySortedDeployed(@)]
  /\ groupCounts' =
       IF LoopCompleted /\ input.jobSummary
       THEN [computed |-> TRUE,
             array |-> GroupCountsArray(GroupCountsOf(records, << >>, orgData,
                                                      deployedSeats, allInactiveSeats))]
       ELSE groupCounts
  /\ allInactiveSeats' =
       IF input.csv THEN SortByOrgLogin(allInactiveSeats) ELSE allInactiveSeats
  /\ pc' = "done"
  /\ UNCHANGED << fetch, organizations, afterCursor, fetches, input, remote, csvFile, now, orgIdx, orgData,
                  allSeatsCount, allRemovedSeatsCount, tasks, calls, records,
                  usersToDeploy, memberOrgs, userIdx, decisions,
                  deployedSeatsCount, createdLog >>
  /\ outputs' = Outputs'

(* ---------------------------------------------------------------------- *)
(* getOrgData and getOrgMembers page by page (lines 55-76 and 127-146)     *)
(* ---------------------------------------------------------------------- *)

\* every variable but fetch
runVars == << input, remote, csvFile, now, pc, orgIdx, orgData, allInactiveSeats,
              allSeatsCount, allRemovedSeatsCount, tasks, calls, records,
              usersToDeploy, memberOrgs, userIdx, decisions, deployedSeats,
              deployedSeatsCount, createdLog, dryTwin, outputs, groupCounts,
              organizations, afterCursor, fetches >>

\* the counters saturate here: every count of MaxGot or more compares alike
\* with a total of at most MaxTotal
MaxGot == MaxTotal + MaxPageItems

\* how a server answers the pages of one fetch: page p carries items[p]
\* items, every seat page reports total_seats = total, and the request of
\* page failPage (0: none) fails with failure; fetch.page is the page
\* requested, counted within the server's period
Servers ==
  [items : [1..MaxPages -> 0..MaxPageItems], total : 0..MaxTotal,
   failPage : 0..MaxPages, failure : {"not_enabled", "not_found", "error"}]

\* no fetch is followed
NoFetch == [kind |-> "none", server |-> << >>, page |-> 0, got |-> 0,
            totalSeats |-> 0, state |-> "idle"]

\* let _seats = [], totalSeats = 0, page = 1 / let members = [], page = 1
FirstRequest(kind, server) ==
  [kind |-> kind, server |-> server, page |-> 1, got |-> 0,
   totalSeats |-> 0, state |-> "requesting"]

Requesting(kind) == fetch.kind = kind /\ fetch.state = "requesting"
RequestFails == fetch.server.failPage = fetch.page
PageItems == fetch.server.items[fetch.page]
\* page++; the server answers page MaxPages + p as it answers page p
NextPage == (fetch.page % MaxPages) + 1

\* lines 59-64 and 76: the page is added, the loop goes on while
\* _seats.length < totalSeats
SeatsPageAnswered ==
  /\ Requesting("seats") /\ ~RequestFails
  /\ LET got == Min(fetch.got + PageItems, MaxGot)
     IN  fetch' = [fetch EXCEPT !.totalSeats = fetch.server.total,
                                !.got = got,
                                !.page = NextPage,
                                !.state = IF got < fetch.server.total
                                          THEN "requesting" ELSE "returned"]
  /\ UNCHANGED runVars

\* lines 66-71: "not enabled" or 404, break
SeatsPageRefused ==
  /\ Requesting("seats") /\ RequestFails
  /\ fetch.server.failure \in {"not_enabled", "not_found"}
  /\ fetch' = [fetch EXCEPT !.state = "returned"]
  /\ UNCHANGED runVars

\* lines 72-74: throw error
SeatsPageFailed ==
  /\ Requesting("seats") /\ RequestFails
  /\ fetch.server.failure = "error"
  /\ fetch' = [fetch EXCEPT !.state = "thrown"]
  /\ UNCHANGED runVars

\* lines 136-137: a page with members is added, the loop goes on
MembersPageAnswered ==
  /\ Requesting("members") /\ ~RequestFails
  /\ PageItems > 0
  /\ fetch' = [fetch EXCEPT !.got = Min(fetch.got + PageItems, MaxGot),
                            !.page = NextPage]
  /\ UNCHANGED runVars

\* lines 133-135: an empty page, break
MembersPageEmpty ==
  /\ Requesting("members") /\ ~RequestFails
  /\ PageItems = 0
  /\ fetch' = [fetch EXCEPT !.state = "returned"]
  /\ UNCHANGED runVars

\* lines 139-141: "Not Found", break
MembersNotFound ==
  /\ Requesting("members") /\ RequestFails
  /\ fetch.server.failure = "not_found"
  /\ fetch' = [fetch EXCEPT !.state = "returned"]
  /\ UNCHANGED runVars

\* lines 142-144: throw error
MembersPageFailed ==
  /\ Requesting("members") /\ RequestFails
  /\ fetch.server.failure # "not_found"
  /\ fetch' = [fetch EXCEPT !.state = "thrown"]
  /\ UNCHANGED runVars

(* ---------------------------------------------------------------------- *)
(* The three updates of the Map on their own (lines 86-88, 115-117 and     *)
(* 153-155), applied to any organization in any order                      *)
(* ---------------------------------------------------------------------- *)

\* every variable but orgData
cacheRest == << input, remote, csvFile, now, pc, orgIdx, allInactiveSeats,
                allSeatsCount, allRemovedSeatsCount, tasks, calls, records,
                usersToDeploy, memberOrgs, userIdx, decisions, deployedSeats,
                deployedSeatsCount, createdLog, dryTwin, outputs, groupCounts,
                fetch, organizations, afterCursor, fetches >>

\* lines 86-88: getOrgData stores the seats it fetched
CacheSeats(org) ==
  /\ orgData' = [orgData EXCEPT ![org] = SetSeats(orgData[org], FetchedSeats(org))]
  /\ UNCHANGED cacheRest

\* lines 115-117: getInactiveSeats stores the classification of the seats
\* it was given, the seats that were fetched
CacheInactive(org) ==
  /\ "seats" \in orgData[org].fields
  /\ orgData' = [orgData EXCEPT
                   ![org] = SetInactive(orgData[org],
                                        GetInactiveSeats(org, orgData[org].seats,
                                                         input.inactiveDays, now))]
  /\ UNCHANGED cacheRest

\* lines 153-155: getOrgMembers stores the members it fetched
CacheMembers(org) ==
  /\ orgData' = [orgData EXCEPT ![org] = SetMembers(orgData[org], FetchedMembers(org))]
  /\ UNCHANGED cacheRest

(* ---------------------------------------------------------------------- *)
(* The runs explored: inputs, remote state and desired-state files         *)
(* ---------------------------------------------------------------------- *)

Noon == MsPerDay \div 2
TeamSlug == "t1"

\* seats around the inactivity boundary, as the remote reports them:
\*  "I" last active one millisecond more than days ago, assigned directly
\*  "T" never active, created one millisecond more than days ago, assigned by a team
\*  "A" last active exactly days ago, assigned directly
\*  "B" active right now, assigned by a team
\*  "P" never active, created exactly days ago, cancellation pending
\*  "U" as "I", and the response carries no pending_cancellation_date
SeatOfKind(login, kind, nowMs, days) ==
  [login |-> login,
   created_at |-> CASE kind = "T" -> nowMs - days * MsPerDay - 1
                    [] kind = "P" -> nowMs - days * MsPerDay
                    [] OTHER -> 0,
   last_activity_at |-> CASE kind \in {"I", "U"} -> nowMs - days * MsPerDay - 1
                          [] kind = "A" -> nowMs - days * MsPerDay
                          [] kind = "B" -> nowMs
                          [] OTHER -> Null,
   pending_cancellation_date |-> CASE kind = "P" -> nowMs + MsPerDay
                                   [] kind = "U" -> Absent
                                   [] OTHER -> Null,
   assigning_team |-> IF kind \in {"T", "B"} THEN TeamSlug ELSE NoTeam]

\* the seat list of an organization in which u and v hold the given kinds
SeatList(ku, kv, nowMs, days) ==
  (IF ku = "-" THEN << >> ELSE << SeatOfKind("u", ku, nowMs, days) >>)
  \o (IF kv = "-" THEN << >> ELSE << SeatOfKind("v", kv, nowMs, days) >>)

\* a remote on which every request succeeds
Healthy(seats, members) ==
  [seats |-> seats, members |-> members, enterprise |-> << >>,
   seatsStatus |-> [o \in Orgs |-> "ok"], seatsGot |-> [o \in Orgs |-> 0],
   membersStatus |-> [o \in Orgs |-> "ok"], assignStatus |-> [o \in Orgs |-> "ok"]]

\* the organization input of most runs: "a" and "a,b"
OrgLists == { << "a" >>, << "a", ",", "b" >> }

BaseInput ==
  [removeInactive |-> FALSE, removefromTeam |-> FALSE, deployUsers |-> FALSE,
   deployUsersDryRun |-> TRUE, org |-> << "a" >>, enterprise |-> "",
   jobSummary |-> FALSE, csv |-> FALSE,
   inactiveDays |-> MaxDays, deployValidationTime |-> MaxDays]

NoCsv == [exists |-> FALSE, rows |-> << >>]

Record(org, login, date) ==
  [organization |-> org, deployment_group |-> "g1", login |-> login,
   activation_date |-> date]

RecordIn(org, group, login, date) ==
  [organization |-> org, deployment_group |-> group, login |-> login,
   activation_date |-> date]

\* the state of run() before its first request
Start ==
  /\ pc = IF UseEnterprise THEN "enterprise" ELSE "orgs"
  /\ organizations = IF UseEnterprise THEN << >> ELSE SplitOrganizations
  /\ afterCursor = 0
  /\ fetches = << >>
  /\ orgIdx = 1
  /\ orgData = [o \in Orgs |-> NoEntry]
  /\ allInactiveSeats = << >>
  /\ allSeatsCount = 0
  /\ allRemovedSeatsCount = 0
  /\ tasks = {}
  /\ calls = << >>
  /\ records = << >>
  /\ usersToDeploy = << >>
  /\ memberOrgs = << >>
  /\ userIdx = 1
  /\ decisions = << >>
  /\ deployedSeats = << >>
  /\ deployedSeatsCount = 0
  /\ createdLog = << >>
  /\ dryTwin = [deployedSeats |-> << >>, deployedSeatsCount |-> 0]
  /\ outputs = NoOutputs
  /\ groupCounts = NoTally

\* cleanup runs: every combination of the two removal toggles and of dry
\* run, over every assignment of seat kinds to the organizations of the list
InitCleanup ==
  /\ now = Today * MsPerDay + Noon
  /\ \E ri \in BOOLEAN, rt \in BOOLEAN, dry \in BOOLEAN, orgs \in OrgLists :
       input = [BaseInput EXCEPT !.removeInactive = ri, !.removefromTeam = rt,
                                 !.deployUsersDryRun = dry, !.org = orgs]
  /\ \E k \in [Orgs -> [Logins -> {"-", "I", "T", "A", "B"}]] :
       /\ \A o \in Orgs \ Range(SplitOrganizations) : \A l \in Logins : k[o][l] = "-"
       /\ remote = Healthy([o \in Orgs |-> SeatList(k[o]["u"], k[o]["v"], now, MaxDays)],
                           [o \in Orgs |-> Logins])
  /\ csvFile = NoCsv

\* cleanup runs whose seat requests fail, softly or not, on the first page
\* or on a later one
InitSeatFaults ==
  /\ now = Today * MsPerDay + Noon
  /\ \E rm \in BOOLEAN :
       input = [BaseInput EXCEPT !.removeInactive = rm, !.removefromTeam = rm,
                                 !.org = << "a", ",", "b" >>]
  /\ \E status \in [Orgs -> SeatsStatuses], got \in [Orgs -> 0..Cardinality(Logins)] :
       /\ \A o \in Orgs : status[o] \in {"ok", "error"} => got[o] = 0
       /\ remote = [Healthy([o \in Orgs |-> SeatList("I", "T", now, MaxDays)],
                            [o \in Orgs |-> Logins])
                      EXCEPT !.seatsStatus = status, !.seatsGot = got]
  /\ csvFile = NoCsv

\* classification runs: one seat, every threshold, times on both sides of
\* every day boundary
InitClassify ==
  /\ now = Today * MsPerDay + Noon
  /\ \E days \in 0..MaxDays : input = [BaseInput EXCEPT !.inactiveDays = days]
  /\ \E kc \in 0..(MaxDays + 1), dc \in {-1, 0, 1},
        ka \in -1..(MaxDays + 1), da \in {-1, 0, 1} :
       remote = Healthy(
          [o \in Orgs |->
             IF o = "a"
             THEN << [login |-> "u",
                      created_at |-> now - kc * MsPerDay - dc,
                      last_activity_at |->
                        IF ka = -1 THEN Null ELSE now - ka * MsPerDay - da,
                      pending_cancellation_date |-> Null,
                      assigning_team |-> NoTeam] >>
             ELSE << >>],
          [o \in Orgs |-> Logins])
  /\ csvFile = NoCsv

\* the rows of the desired-state files: both organizations and logins
\* dated today, and one row dated before the window
DeployRows ==
  { Record(o, l, Today) : o \in Orgs, l \in Logins }
    \cup { Record("a", "u", Today - MaxDays - 1) }

RowLists == UNION { [1..n -> DeployRows] : n \in 0..MaxRecords }

\* deployment runs on a healthy remote: with and without seats, members,
\* removal and dry run
InitDeploy ==
  /\ now = Today * MsPerDay + Noon
  /\ \E rm \in BOOLEAN, dry \in BOOLEAN, orgs \in OrgLists :
       input = [BaseInput EXCEPT !.removeInactive = rm, !.removefromTeam = rm,
                                 !.deployUsers = TRUE, !.deployUsersDryRun = dry,
                                 !.org = orgs]
  /\ \E ku \in [Orgs -> {"-", "I", "P"}], kv \in {"-", "T"},
        roster \in { {"u"}, {"u", "v"} } :
       remote = Healthy([o \in Orgs |-> SeatList(ku[o], kv, now, MaxDays)],
                        [o \in Orgs |-> roster])
  /\ \/ csvFile = NoCsv
     \/ \E rows \in RowLists : csvFile = [exists |-> TRUE, rows |-> rows]

\* deployment runs in which the requests of one organization fail
InitDeployFaults ==
  /\ now = Today * MsPerDay + Noon
  /\ \E dry \in BOOLEAN, orgs \in OrgLists :
       input = [BaseInput EXCEPT !.deployUsers = TRUE, !.deployUsersDryRun = dry,
                                 !.org = orgs]
  /\ \E ku \in {"-", "I"}, bad \in Orgs,
        ms \in MembersStatuses, as \in AssignStatuses, ss \in {"ok", "error"} :
       /\ ss = "error" => bad \notin Range(SplitOrganizations)
       /\ remote = [Healthy([o \in Orgs |-> SeatList(ku, "-", now, MaxDays)],
                            [o \in Orgs |-> Logins])
                      EXCEPT !.membersStatus[bad] = ms, !.assignStatus[bad] = as,
                             !.seatsStatus[bad] = ss]
  /\ \E rows \in RowLists : csvFile = [exists |-> TRUE, rows |-> rows]

\* validation-window runs: one row, every date around the window, at
\* several times of day
InitWindow ==
  /\ \E tod \in {0, 1, Noon, MsPerDay - 1} : now = Today * MsPerDay + tod
  /\ \E days \in 0..MaxDays :
       input = [BaseInput EXCEPT !.deployUsers = TRUE, !.deployValidationTime = days]
  /\ remote = Healthy([o \in Orgs |-> << >>], [o \in Orgs |-> Logins])
  /\ \E date \in ((Today - MaxDays - 1)..(Today + 1)) \cup {EmptyCell, BadDate} :
       csvFile = [exists |-> TRUE, rows |-> << Record("a", "u", date) >>]

\* the rows of the files the tally is computed from: both groups, and one
\* row dated before the window
TallyRows ==
  { RecordIn(o, g, l, Today) : o \in Orgs, g \in Groups, l \in Logins }
    \cup { RecordIn("a", "g1", "v", Today - MaxDays - 1) }

TallyRowLists == UNION { [1..n -> TallyRows] : n \in 0..MaxRecords }

\* deployment runs with the job summary on: seats held, pending or inactive,
\* organizations in and out of the list, a member fetch that fails
InitTally ==
  /\ now = Today * MsPerDay + Noon
  /\ \E dry \in BOOLEAN, orgs \in OrgLists :
       input = [BaseInput EXCEPT !.deployUsers = TRUE, !.deployUsersDryRun = dry,
                                 !.jobSummary = TRUE, !.org = orgs]
  /\ \E ka \in {"-", "I", "P"}, kb \in {"-", "I"}, ms \in {"ok", "error"} :
       remote = [Healthy([o \in Orgs |->
                            SeatList(IF o = "a" THEN ka ELSE kb, "-", now, MaxDays)],
                         [o \in Orgs |-> Logins])
                   EXCEPT !.membersStatus["b"] = ms]
  /\ \E rows \in TallyRowLists : csvFile = [exists |-> TRUE, rows |-> rows]

\* runs over every combination of the job-summary, csv and deploy toggles,
\* with removal on and inactive seats of both kinds in every organization
InitToggles ==
  /\ now = Today * MsPerDay + Noon
  /\ \E js \in BOOLEAN, csv \in BOOLEAN, deploy \in BOOLEAN, orgs \in OrgLists :
       input = [BaseInput EXCEPT !.removeInactive = TRUE, !.removefromTeam = TRUE,
                                 !.jobSummary = js, !.csv = csv,
                                 !.deployUsers = deploy, !.deployUsersDryRun = FALSE,
                                 !.org = orgs]
  /\ \E first \in {"I", "T"} :
       remote = Healthy([o \in Orgs |->
                           SeatList(IF first = "I" THEN "T" ELSE "I", first, now, MaxDays)],
                        [o \in Orgs |-> Logins])
  /\ csvFile = [exists |-> TRUE, rows |-> << Record("a", "v", Today), Record("a", "u", Today) >>]

\* the organization inputs with whitespace, in both orders, with an
\* organization named twice
OrgInputs ==
  { << "b" >>, << " ", "a", ",", " ", "b", " " >>, << "b", ",", "a" >>,
    << "a", ",", "a" >> }

\* the pages the enterprise listing answers with
Listings ==
  UNION { [1..n -> { << >>, << "a" >>, << "b" >>, << "b", "a" >> }] :
            n \in 1..MaxListingPages }

\* runs with and without an enterprise, over every listing and every
\* organization input, with removal on and off
InitSelect ==
  /\ now = Today * MsPerDay + Noon
  /\ \E enterprise \in {"", "e"}, org \in OrgInputs, rm \in BOOLEAN :
       input = [BaseInput EXCEPT !.enterprise = enterprise, !.org = org,
                                 !.removeInactive = rm, !.removefromTeam = rm]
  /\ \E listing \in Listings :
       /\ input.enterprise = "" => listing = << << >> >>
       /\ remote = [Healthy([o \in Orgs |-> SeatList("I", "T", now, MaxDays)],
                            [o \in Orgs |-> Logins])
                      EXCEPT !.enterprise = listing]
  /\ csvFile = NoCsv

\* deployment runs over a seat whose pending cancellation is null, set or
\* not carried by the response
InitPending ==
  /\ now = Today * MsPerDay + Noon
  /\ \E dry \in BOOLEAN, orgs \in OrgLists :
       input = [BaseInput EXCEPT !.deployUsers = TRUE, !.deployUsersDryRun = dry,
                                 !.org = orgs]
  /\ \E ku \in {"I", "P", "U"} :
       remote = Healthy([o \in Orgs |-> SeatList(ku, "-", now, MaxDays)],
                        [o \in Orgs |-> Logins])
  /\ \E n \in 1..MaxRecords :
       csvFile = [exists |-> TRUE, rows |-> [i \in 1..n |-> Record("a", "u", Today)]]

\* an empty Map, and organizations with no seat, an inactive or an active one
InitCache ==
  /\ now = Today * MsPerDay + Noon
  /\ input = BaseInput
  /\ \E k \in [Orgs -> {"-", "I", "A"}] :
       remote = Healthy([o \in Orgs |-> SeatList(k[o], "T", now, MaxDays)],
                        [o \in Orgs |-> Logins])
  /\ csvFile = NoCsv
  /\ fetch = NoFetch
  /\ Start

\* one paginated fetch against every server
InitPages ==
  /\ now = Today * MsPerDay + Noon
  /\ input = BaseInput
  /\ Start
  /\ remote = Healthy([o \in Orgs |-> << >>], [o \in Orgs |-> Logins])
  /\ csvFile = NoCsv
  /\ \E kind \in {"seats", "members"}, server \in Servers :
       fetch = FirstRequest(kind, server)

Init ==
  /\ fetch = NoFetch
  /\ \/ InitCleanup
     \/ InitSeatFaults
     \/ InitClassify
     \/ InitDeploy
     \/ InitDeployFaults
     \/ InitWindow
     \/ InitTally
     \/ InitToggles
     \/ InitSelect
     \/ InitPending
  /\ Start

\* seats_created a response may carry
CreatedCounts == {0, 1}

Next ==
  \/ EnterprisePageAnswered
  \/ OrgFetched
  \/ OrgFetchFailed
  \/ \E t \in tasks : \E cancelled \in 0..Len(t.rest) : IndividualRemoved(t, cancelled)
  \/ \E t \in tasks : TeamRemoved(t)
  \/ CsvMissing
  \/ CsvRead
  \/ MembersFetched
  \/ MembersFetchFailed
  \/ SkipUser
  \/ MembersUndefined
  \/ AssignOrDryRun
  \/ \E created \in CreatedCounts : Assigned(created)
  \/ AssignNotEnabled
  \/ AssignFailed
  \/ LazyFetchStart
  \/ LazyFetched
  \/ LazyFetchFailed
  \/ SetOutputs

Spec == Init /\ [][Next]_vars

NextPages ==
  \/ SeatsPageAnswered
  \/ SeatsPageRefused
  \/ SeatsPageFailed
  \/ MembersPageAnswered
  \/ MembersPageEmpty
  \/ MembersNotFound
  \/ MembersPageFailed

\* the event loop delivers the answer of a pending request
SpecPages == InitPages /\ [][NextPages]_vars /\ WF_vars(NextPages)

NextCache ==
  \/ \E org \in Orgs : CacheSeats(org)
  \/ \E org \in Orgs : CacheInactive(org)
  \/ \E org \in Orgs : CacheMembers(org)

SpecCache == InitCache /\ [][NextCache]_vars

(* ---------------------------------------------------------------------- *)
(* Properties                                                              *)
(* ---------------------------------------------------------------------- *)

\* the seats of an organization as the Map holds them
CachedSeats(org) == Range(orgData[org].seats)

\* the seat is in the inactive list cached for the organization
InInactive(org, seat) ==
  \E i \in 1..Len(orgData[org].inactiveSeats) :
    orgData[org].inactiveSeats[i] = WithOrg(seat, org)

Classified(org) == "inactiveSeats" \in orgData[org].fields

\* milliseconds between the seat's last activity, or its creation when it
\* has none, and now
ElapsedMs(seat) ==
  IF seat.last_activity_at # Null
  THEN now - seat.last_activity_at
  ELSE now - seat.created_at

\* C1: a seat is classified inactive exactly when more than inactiveDays
\* whole days (of 86,400,000 ms, rounded up) lie between now and its last
\* activity, or its creation when it has no activity: exactly inactiveDays
\* days is active, one millisecond more is inactive.
C1_Classification ==
  \A org \in Orgs : Classified(org) =>
    \A seat \in CachedSeats(org) :
      InInactive(org, seat) <=> ElapsedMs(seat) > input.inactiveDays * MsPerDay

\* an organization with a seat last active exactly inactiveDays days ago
\* left active, and a seat without activity created one millisecond earlier
\* than that classified inactive
C1_Witness ==
  \E org \in Orgs :
    /\ Classified(org)
    /\ \E s1 \in CachedSeats(org) :
         /\ s1.last_activity_at # Null
         /\ now - s1.last_activity_at = input.inactiveDays * MsPerDay
         /\ ~InInactive(org, s1)
    /\ \E s2 \in CachedSeats(org) :
         /\ s2.last_activity_at = Null
         /\ now - s2.created_at = input.inactiveDays * MsPerDay + 1
         /\ InInactive(org, s2)

CallsOfKind(kind) == { i \in 1..Len(calls) : calls[i].kind = kind }

\* C2: every login of an individual-removal call is the login of an
\* inactive seat of that organization with no assigning team, and every
\* team-membership removal names the assigning team and the login of an
\* inactive seat of that organization that a team assigned.
C2_RemovalsAreInactive ==
  /\ \A i \in CallsOfKind("remove") :
       \A j \in 1..Len(calls[i].logins) :
         \E seat \in CachedSeats(calls[i].org) :
           /\ seat.login = calls[i].logins[j]
           /\ seat.assigning_team = NoTeam
           /\ InInactive(calls[i].org, seat)
           /\ ElapsedMs(seat) > input.inactiveDays * MsPerDay
  /\ \A i \in CallsOfKind("removeTeam") :
       \E seat \in CachedSeats(calls[i].org) :
         /\ << seat.login >> = calls[i].logins
         /\ seat.assigning_team = calls[i].team
         /\ seat.assigning_team # NoTeam
         /\ InInactive(calls[i].org, seat)
         /\ ElapsedMs(seat) > input.inactiveDays * MsPerDay

\* both kinds of removal were issued, and the organization of the
\* individual removal also holds an active seat that a team assigned
C2_Witness ==
  \E i \in CallsOfKind("remove"), j \in CallsOfKind("removeTeam") :
    \E seat \in CachedSeats(calls[i].org) :
      /\ ~InInactive(calls[i].org, seat)
      /\ seat.assigning_team # NoTeam

\* the role the remote reports for a user on a team (the lookup of
\* teams.getMembershipForUserInOrg)
TeamRole(org, team, login) == IF login = "u" THEN "maintainer" ELSE "member"

\* C3: no team-membership removal is issued for a user whose role on the
\* assigning team is "maintainer".
C3_MaintainerProtected ==
  \A i \in CallsOfKind("removeTeam") :
    TeamRole(calls[i].org, calls[i].team, calls[i].logins[1]) # "maintainer"

\* C4: with the removal toggle off no individual-removal call is issued and
\* with the team-removal toggle off no team-membership removal is issued.
C4_TogglesGate ==
  /\ ~input.removeInactive => CallsOfKind("remove") = {}
  /\ ~input.removefromTeam => CallsOfKind("removeTeam") = {}

HoldsInactive(org, individually) ==
  \E seat \in CachedSeats(org) :
    /\ InInactive(org, seat)
    /\ (seat.assigning_team = NoTeam) = individually

\* a finished run with both toggles off over an organization that holds
\* inactive seats of both kinds
C4_Witness ==
  /\ pc = "done"
  /\ ~input.removeInactive /\ ~input.removefromTeam
  /\ \E org \in Orgs : HoldsInactive(org, TRUE) /\ HoldsInactive(org, FALSE)
  /\ calls = << >>

\* every assignment request of the remote is answered with success
SinkAlwaysSucceeds == \A o \in Orgs : remote.assignStatus[o] = "ok"

\* C5 as stated: a dry run issues no assignment request, and a real run
\* against a sink that always succeeds ends with the deployed list and the
\* deployed count of the dry run.
C5_DryRunSameListAndCount ==
  /\ input.deployUsersDryRun => CallsOfKind("assign") = {}
  /\ (pc = "done" /\ ~input.deployUsersDryRun /\ SinkAlwaysSucceeds) =>
       /\ deployedSeats = dryTwin.deployedSeats
       /\ deployedSeatsCount = dryTwin.deployedSeatsCount

\* C5 amended: a dry run issues no assignment request and ends with the
\* deployed list of the real run against a sink that always succeeds; the
\* dry run counts one seat per listed record, the real run adds up the
\* seats_created of the answers, so the counts agree when every answer
\* reports one seat created.
C5_DryRunSameList ==
  /\ input.deployUsersDryRun => CallsOfKind("assign") = {}
  /\ (pc = "done" /\ input.deployUsersDryRun) => Deployed = dryTwin
  /\ (pc = "done" /\ ~input.deployUsersDryRun /\ SinkAlwaysSucceeds) =>
       /\ deployedSeats = dryTwin.deployedSeats
       /\ dryTwin.deployedSeatsCount = Len(dryTwin.deployedSeats)
       /\ deployedSeatsCount = SumSeq(createdLog)
       /\ (\A i \in 1..Len(createdLog) : createdLog[i] = 1) =>
            deployedSeatsCount = dryTwin.deployedSeatsCount

\* a finished real run that assigned two seats, each answered with one
\* seat created
C5_Witness ==
  /\ pc = "done" /\ ~input.deployUsersDryRun /\ SinkAlwaysSucceeds
  /\ Len(deployedSeats) = 2
  /\ createdLog = << 1, 1 >>

\* C6 as stated: with dry run on, no mutating request of any kind is issued.
C6_DryRunNoMutation == input.deployUsersDryRun => calls = << >>

\* C6 amended: with dry run on, no assignment request is issued; the only
\* mutating requests are the removals their own toggles switch on.
C6_DryRunNoAssignment ==
  input.deployUsersDryRun =>
    \A i \in 1..Len(calls) :
      \/ calls[i].kind = "remove" /\ input.removeInactive
      \/ calls[i].kind = "removeTeam" /\ input.removefromTeam

\* a dry run that decided to assign a record and whose cleanup removed a seat
C6_Witness ==
  /\ input.deployUsersDryRun
  /\ \E i \in 1..Len(decisions) : decisions[i] = "assigned-dry-run"
  /\ CallsOfKind("remove") # {}

SamePair(r1, r2) == r1.organization = r2.organization /\ r1.login = r2.login

\* C7: once a record was assigned, a later record of the same organization
\* and login is skipped as already seated: the pair gets one assignment
\* request and one entry of the deployed list.
C7_NoDoubleAssign ==
  \A i \in 1..Len(usersToDeploy) :
    decisions[i] = "assigned" =>
      /\ \A j \in (i + 1)..Len(usersToDeploy) :
           SamePair(usersToDeploy[i], usersToDeploy[j]) =>
             decisions[j] \in {"none", "skipped-already-seated"}
      /\ Cardinality({ k \in CallsOfKind("assign") :
                         /\ calls[k].org = usersToDeploy[i].organization
                         /\ calls[k].logins = << usersToDeploy[i].login >> }) <= 1
      /\ Cardinality({ k \in 1..Len(deployedSeats) :
                         SamePair(deployedSeats[k], usersToDeploy[i]) }) <= 1

\* the calendar day the run executes on
DayOf(ms) == ms \div MsPerDay

CsvWasRead == pc \in {"members", "users", "assign", "lazyFetch", "finish", "done"}
                /\ input.deployUsers

\* C8: a row with a valid date is kept exactly when its date is one of the
\* deployValidationTime calendar days before today, or today.
C8_WindowInclusive ==
  CsvWasRead =>
    \A i \in 1..Len(records) :
      (~HasEmptyValues(records[i]) /\ records[i].activation_date >= 0) =>
        ( (\E k \in 1..Len(usersToDeploy) : usersToDeploy[k] = records[i])
          <=> /\ DayOf(now) - input.deployValidationTime <= records[i].activation_date
              /\ records[i].activation_date <= DayOf(now) )

\* the user holds a seat with no pending cancellation at the remote
SeatedAtRemote(org, login) ==
  \E seat \in Range(remote.seats[org]) :
    seat.login = login /\ seat.pending_cancellation_date = Null

HasMembers(org) == "members" \in orgData[org].fields

\* C9: a record whose login is a member of its organization and already
\* holds a seat there with no pending cancellation is skipped as already
\* seated, and no assignment request is issued for it.
C9_SeatedIsSkipped ==
  \A i \in 1..Len(usersToDeploy) :
    LET user == usersToDeploy[i]
        org == user.organization
    IN  ( /\ HasMembers(org) /\ user.login \in orgData[org].members
          /\ remote.seatsStatus[org] = "ok"
          /\ SeatedAtRemote(org, user.login) ) =>
          /\ decisions[i] \in {"none", "skipped-already-seated"}
          /\ \A k \in CallsOfKind("assign") :
               ~(calls[k].org = org /\ calls[k].logins = << user.login >>)

\* C10: a record whose login is not in the roster fetched for its
\* organization is skipped as not-member, also when the login holds a seat:
\* no assignment request, no entry of the deployed list, and the loop goes
\* on to the next record.
C10_NotMemberSkipped ==
  \A i \in 1..Len(usersToDeploy) :
    LET user == usersToDeploy[i]
        org == user.organization
    IN  (HasMembers(org) /\ user.login \notin orgData[org].members) =>
          /\ decisions[i] \in {"none", "skipped-not-member"}
          /\ decisions[i] = "skipped-not-member" =>
               /\ userIdx > i
               /\ pc = "finish" => decisions[userIdx] \in {"threw", "assign-failed"}
          /\ \A k \in CallsOfKind("assign") :
               ~(calls[k].org = org /\ calls[k].logins = << user.login >>)
          /\ \A k \in 1..Len(deployedSeats) : ~SamePair(deployedSeats[k], user)

\* a record skipped as not-member although its login holds a seat with no
\* pending cancellation, and the record after it decided
C10_Witness ==
  \E i \in 1..(Len(usersToDeploy) - 1) :
    /\ decisions[i] = "skipped-not-member"
    /\ HasSeat(orgData[usersToDeploy[i].organization], usersToDeploy[i])
    /\ decisions[i + 1] \in {"assigned", "assigned-dry-run", "skipped-already-seated"}

\* a request for the snapshot of the organization fails hard
SnapshotFailed(org) ==
  remote.membersStatus[org] = "error" \/ remote.seatsStatus[org] = "error"

AssignFailedSomewhere ==
  \E i \in 1..Len(decisions) : decisions[i] = "assign-failed"

\* C11: a record whose organization's seat fetch or member fetch failed is
\* skipped, the loop is not aborted by it, and when the loop is over every
\* record was decided (unless an assignment failed hard).
C11_FetchFailureSkips ==
  \A i \in 1..Len(usersToDeploy) :
    SnapshotFailed(usersToDeploy[i].organization) =>
      /\ decisions[i] \in {"none", "fetch-failed", "fetched"}
      /\ (pc = "done" /\ ~AssignFailedSomewhere) =>
           \A j \in 1..Len(usersToDeploy) : decisions[j] # "none"

\* run() has returned or was rejected
RunEnded == pc \in {"done", "failed", "crashed"}

\* C12: a hard failure of one organization's seat fetch stops that
\* organization only: when the run has ended, every organization of the
\* list whose seat fetch does not fail hard was fetched and classified.
C12_OtherOrgsContinue ==
  RunEnded =>
    \A k \in 1..Len(organizations) :
      remote.seatsStatus[organizations[k]] # "error" =>
        {"seats", "inactiveSeats"} \subseteq orgData[organizations[k]].fields

\* the seat requests of the organization end with "not enabled" or 404
SoftSeatFailure(org) == remote.seatsStatus[org] \in {"not_enabled", "not_found"}

C14_MissingFileBeforeCalls ==
  pc = "failed" => (calls = << >> /\ \A o \in Orgs : ~HasEntry(o))

\* a remote request failed hard in the organization loop or in the
\* enrollment loop
HardError == pc = "crashed" \/ AssignFailedSomewhere

\* the process ends with a failure: core.setFailed, or run() rejected
FailureSignalled == pc \in {"failed", "crashed"}

\* C15: after a hard remote error the run ends with a failure signal and
\* with the outputs computed up to that point.
C15_FailureAndOutputs ==
  (RunEnded /\ HardError) => (FailureSignalled /\ outputs = Outputs)

IndividualInFlight == \E t \in tasks : t.kind = "individual"

\* C16: when the run is over and every individual removal was answered, the
\* removed-seats output is the sum of the seats_cancelled of the answers.
C16_RemovedSeatsOutput ==
  (pc = "done" /\ ~IndividualInFlight) =>
    outputs.removedSeats = allRemovedSeatsCount

\* C17: the requests of an organization are over before the next request
\* of run() starts, and no two removals are in flight together.
C17_OneAtATime ==
  /\ Cardinality(tasks) <= 1
  /\ tasks # {} => pc \notin {"orgs", "members", "assign", "lazyFetch"}

\* the paginated fetch returned its items or threw
FetchOver == fetch.state \in {"returned", "thrown"}

\* C18: every paginated fetch comes to an end, whatever the server answers.
C18_PaginationTerminates == <>FetchOver

\* the group tally was computed (the job summary is on and the loop over
\* the records ended without an exception)
TallyComputed == groupCounts.computed

RecordsOfGroup(group) ==
  { k \in 1..Len(records) : records[k].deployment_group = group }

InInactiveSet(record) ==
  /\ "inactiveSeats" \in orgData[record.organization].fields
  /\ \E seat \in Range(orgData[record.organization].inactiveSeats) :
       seat.login = record.login

\* C20: the inactive count of a group is the number of its original records
\* whose (organization, login) is in the inactive set computed for that
\* organization in this run, in the organization loop or during deployment.
C20_InactiveTally ==
  TallyComputed =>
    \A i \in 1..Len(groupCounts.array) :
      groupCounts.array[i].inactive =
        Cardinality({ k \in RecordsOfGroup(groupCounts.array[i].group) :
                        InInactiveSet(records[k]) })

\* C21: the inactive list computed for an organization places every seat
\* without a last_activity_at before every seat with one, orders the seats
\* that have one ascending by it, and keeps the order of the fetched seats
\* between seats with equal keys (stated while the job summary, which sorts
\* the same array again by login, is off).
C21_InactiveSorted ==
  \A org \in Orgs :
    (Classified(org) /\ ~input.jobSummary) =>
      LET inactive == orgData[org].inactiveSeats
          SeatIndex(login) ==
            CHOOSE k \in 1..Len(orgData[org].seats) : orgData[org].seats[k].login = login
      IN  \A i, j \in 1..Len(inactive) :
            i < j =>
              /\ inactive[j].last_activity_at = Null => inactive[i].last_activity_at = Null
              /\ (inactive[i].last_activity_at # Null /\ inactive[j].last_activity_at # Null)
                   => inactive[i].last_activity_at <= inactive[j].last_activity_at
              /\ inactive[i].last_activity_at = inactive[j].last_activity_at
                   => SeatIndex(inactive[i].login) < SeatIndex(inactive[j].login)

\* C22: an assignment that fails with "program not enabled" throws nothing,
\* leaves the deployed list and count as they were and lets the following
\* records be processed; an assignment that fails otherwise lets no further
\* record be processed and aborts the remainder of the run: no deployment
\* summary, and the run ends as a failed run.
C22_AssignFailures ==
  LET DeployedIndices ==
        { j \in 1..Len(decisions) : decisions[j] \in {"assigned", "assigned-dry-run"} }
      LoopThrew ==
        \E j \in 1..Len(decisions) : decisions[j] \in {"threw", "assign-failed"}
  IN  /\ \A i \in 1..Len(decisions) :
           decisions[i] = "not-enabled" =>
             /\ userIdx > i
             /\ pc \notin {"crashed", "failed"}
             /\ Len(deployedSeats) = Cardinality(DeployedIndices)
             /\ Len(createdLog) = Cardinality(DeployedIndices)
             /\ deployedSeatsCount = SumSeq(createdLog)
             /\ (pc = "done" /\ ~LoopThrew) =>
                  \A j \in (i + 1)..Len(decisions) : decisions[j] # "none"
      /\ \A i \in 1..Len(decisions) :
           decisions[i] = "assign-failed" =>
             /\ \A j \in (i + 1)..Len(decisions) : decisions[j] = "none"
             /\ ~TallyComputed
             /\ RunEnded => FailureSignalled

\* the logins of the pages, in page order
RECURSIVE Flatten(_)
Flatten(pages) == IF pages = << >> THEN << >> ELSE Head(pages) \o Flatten(Tail(pages))

\* the characters of the names written with a comma between them
RECURSIVE CommaJoined(_)
CommaJoined(names) ==
  IF names = << >> THEN << >>
  ELSE IF Len(names) = 1 THEN << names[1] >>
  ELSE << Head(names), "," >> \o CommaJoined(Tail(names))

\* C23: with an enterprise configured the organizations are the logins of
\* the enterprise listing, page after page until hasNextPage is false, and
\* the organization input is ignored; without one they are the names of the
\* organization input between its commas, without the whitespace around
\* them.  The loop processes exactly these organizations, in this order.
C23_EnterpriseTakesPrecedence ==
  LET OrgLoopFetches == IF pc = "crashed" THEN orgIdx ELSE orgIdx - 1
  IN  /\ (input.enterprise # "" /\ pc = "enterprise") =>
           /\ afterCursor < Len(remote.enterprise)
           /\ organizations = Flatten(SubSeq(remote.enterprise, 1, afterCursor))
      /\ (input.enterprise # "" /\ pc # "enterprise") =>
           organizations = Flatten(remote.enterprise)
      /\ input.enterprise = "" =>
           /\ CommaJoined(organizations) = SelectSeq(input.org, LAMBDA c : c # " ")
           /\ \A k \in 1..Len(organizations) : organizations[k] \in Orgs
      /\ OrgLoopFetches <= Len(fetches)
      /\ \A k \in 1..OrgLoopFetches : fetches[k] = Fetch("seats", organizations[k])
      /\ pc \notin {"enterprise", "orgs", "crashed"} => OrgLoopFetches = Len(organizations)

\* a finished run with an enterprise whose listing has two pages, b then a,
\* and an organization input that names a twice: b and a were processed
C23_Witness ==
  /\ pc = "done"
  /\ input.enterprise # "" /\ input.org = << "a", ",", "a" >>
  /\ remote.enterprise = << << "b" >>, << "a" >> >>
  /\ fetches = << Fetch("seats", "b"), Fetch("seats", "a") >>

\* C24: a run in which every remote call succeeds or fails softly, and
\* whose desired-state file exists when deployment is on, ends without a
\* failure signal, and its six outputs are set when the run is over, after
\* every organization and every record was processed: no organization is
\* left to fetch, no record left to decide, no removal left to request.
C24_OutputsAfterProcessing ==
  LET NoHardFailure ==
        /\ \A o \in Orgs :
             /\ remote.seatsStatus[o] # "error"
             /\ remote.membersStatus[o] # "error"
             /\ remote.assignStatus[o] # "error"
        /\ input.deployUsers => csvFile.exists
      RemovalToIssue == \E t \in tasks : t.kind = "team" /\ t.rest # << >>
  IN  NoHardFailure =>
        /\ ~FailureSignalled
        /\ outputs # NoOutputs =>
             /\ pc = "done"
             /\ orgIdx > Len(organizations)
             /\ \A i \in 1..Len(decisions) : decisions[i] # "none"
             /\ ~RemovalToIssue

\* C25: every update of the Map is an additive merge: a field that was
\* cached for an organization before a seat fetch, a member fetch or a
\* classification is cached after it, with the same value.
C25_AdditiveMerge ==
  [][\A o \in Orgs :
       \A f \in orgData[o].fields :
         f \in orgData'[o].fields /\ orgData'[o][f] = orgData[o][f]]_vars

\* C26: within one run at most one seat fetch and at most one member fetch
\* is started per organization, also when the organization is named twice
\* in the list, is named in the list and in the records, or when its
\* earlier fetch failed.
C26_OneFetchPerOrg ==
  LET FetchesOf(kind, org) == { i \in 1..Len(fetches) : fetches[i] = Fetch(kind, org) }
  IN  \A o \in Orgs :
        /\ Cardinality(FetchesOf("seats", o)) <= 1
        /\ Cardinality(FetchesOf("members", o)) <= 1

\* C27: every record that passed validation, that the loop has left behind
\* and whose organization has its snapshot in the Map gets one outcome
\* among skipped-not-member, skipped-already-seated, assigned and
\* assigned-dry-run (its assignment request being answered with success);
\* the record whose processing fetched the snapshot is decided as well.
C27_OneOutcome ==
  \A i \in 1..Len(usersToDeploy) :
    LET org == usersToDeploy[i].organization
    IN  ( /\ i < userIdx
          /\ "seats" \in orgData[org].fields \/ "members" \in orgData[org].fields
          /\ remote.assignStatus[org] = "ok" ) =>
          decisions[i] \in {"skipped-not-member", "skipped-already-seated",
                            "assigned", "assigned-dry-run"}

\* the requests of the kind issued for the organization, in order
CallsFor(kind, org) ==
  SelectSeq(calls, LAMBDA c : c.kind = kind /\ c.org = org)

\* C28: for each organization processed with the removal toggle on, one
\* removal-by-list call carries the logins of all its inactive seats that no
\* team assigned, and none is issued when there is no such seat; with the
\* team toggle on, its inactive seats that a team assigned are removed one
\* per call, one after the other in the order of the inactive list.
C28_RemovalCalls ==
  \A org \in Orgs :
    LET n == Cardinality({ k \in 1..(orgIdx - 1) : organizations[k] = org })
        inactive == GetInactiveSeats(org, orgData[org].seats, input.inactiveDays, now)
        individually == SelectSeq(inactive, LAMBDA seat : seat.assigning_team = NoTeam)
        byTeam == SelectSeq(inactive, LAMBDA seat : seat.assigning_team # NoTeam)
        removals == CallsFor("remove", org)
        teamRemovals == CallsFor("removeTeam", org)
        teamRest ==
          IF \E t \in tasks : t.kind = "team" /\ t.org = org
          THEN Len((CHOOSE t \in tasks : t.kind = "team" /\ t.org = org).rest)
          ELSE 0
    IN  /\ Len(removals) = IF input.removeInactive /\ individually # << >> THEN n ELSE 0
        /\ \A i \in 1..Len(removals) :
             removals[i].logins = [j \in 1..Len(individually) |-> individually[j].login]
        /\ \A i \in 1..Len(teamRemovals) :
             \E j \in 1..Len(byTeam) :
               /\ teamRemovals[i].logins = << byTeam[j].login >>
               /\ teamRemovals[i].team = byTeam[j].assigning_team
        /\ ~input.removefromTeam => teamRemovals = << >>
        /\ (input.removefromTeam /\ n = 1) =>
             /\ Len(teamRemovals) = Len(byTeam) - teamRest
             /\ \A i \in 1..Len(teamRemovals) :
                  teamRemovals[i].logins = << byTeam[i].login >>

\* a finished run with both toggles on: organization a, whose two inactive
\* seats a team assigned, got one team removal per seat and no removal by
\* list; organization b, whose two inactive seats no team assigned, got one
\* removal by list with both logins
C28_Witness ==
  /\ pc = "done" /\ tasks = {}
  /\ input.removeInactive /\ input.removefromTeam
  /\ Len(CallsFor("removeTeam", "a")) = 2 /\ CallsFor("remove", "a") = << >>
  /\ Len(CallsFor("remove", "b")) = 1 /\ Len(CallsFor("remove", "b")[1].logins) = 2

\* the seats cached for the organization hold a seat of the login whose
\* pending cancellation is one of the given values
CachedSeatWith(org, login, pending) ==
  \E seat \in CachedSeats(org) :
    seat.login = login /\ seat.pending_cancellation_date \in pending

\* C29: a member who holds a seat whose pending_cancellation_date is absent
\* is treated like one whose pending_cancellation_date is null: the record
\* is skipped as already seated, no assignment request is issued for it and
\* it is not listed as deployed.
C29_AbsentIsNull ==
  \A i \in 1..Len(usersToDeploy) :
    LET user == usersToDeploy[i]
        org == user.organization
    IN  ( /\ HasMembers(org) /\ IsMember(orgData[org], user)
          /\ CachedSeatWith(org, user.login, {Null, Absent}) ) =>
          /\ decisions[i] \in {"none", "skipped-already-seated"}
          /\ \A k \in CallsOfKind("assign") :
               ~(calls[k].org = org /\ calls[k].logins = << user.login >>)
          /\ \A k \in 1..Len(deployedSeats) : ~SamePair(deployedSeats[k], user)

\* the record is one the loop may assign a seat: it passed the three checks
\* of the filter (no empty value, a date that parses, a date within the
\* validation window), its login is in the roster cached for its
\* organization, and the seats cached for it hold no seat of the login with
\* a null pending cancellation
Assignable(record) ==
  /\ record.organization # "" /\ record.deployment_group # "" /\ record.login # ""
  /\ record.activation_date >= 0
  /\ now - input.deployValidationTime * MsPerDay <= record.activation_date * MsPerDay
  /\ record.activation_date * MsPerDay <= now
  /\ HasMembers(record.organization)
  /\ record.login \in orgData[record.organization].members
  /\ ~CachedSeatWith(record.organization, record.login, {Null})

\* C30: every entry of the deployed list, and of the deployed-seats output,
\* is a record that passed the three validation checks, whose login is in
\* the cached roster of its organization and has no seat with a null pending
\* cancellation among the cached seats; every assignment request was issued
\* for such a record that the loop has reached.
C30_DeployedAreAssignable ==
  /\ \A k \in 1..Len(deployedSeats) :
       /\ Assignable(deployedSeats[k])
       /\ \E i \in 1..Len(usersToDeploy) : usersToDeploy[i] = deployedSeats[k] /\ i <= userIdx
  /\ outputs # NoOutputs =>
       \A k \in 1..Len(outputs.deployedSeats) : Assignable(outputs.deployedSeats[k])
  /\ \A k \in CallsOfKind("assign") :
       \E i \in 1..Len(usersToDeploy) :
         /\ i <= userIdx
         /\ Assignable(usersToDeploy[i])
         /\ calls[k].org = usersToDeploy[i].organization
         /\ calls[k].logins = << usersToDeploy[i].login >>
  /\ Cardinality(CallsOfKind("assign")) <= Len(usersToDeploy)

\* a finished real run over a file of two rows: the first was rejected (its
\* date is before the window), the second was assigned a seat and is the
\* only entry of the deployed-seats output
C30_Witness ==
  /\ pc = "done" /\ ~input.deployUsersDryRun
  /\ Len(records) = 2
  /\ records[1].activation_date >= 0
  /\ records[1].activation_date * MsPerDay < now - input.deployValidationTime * MsPerDay
  /\ outputs.deployedSeats = << records[2] >>
  /\ Cardinality(CallsOfKind("assign")) = 1

====
